---- MODULE Spec2Model ----
(***************************************************************************)
(* Host user management of lib/srv/usermgmt.go: createGroupIfNotExist,     *)
(* createTemporaryUser, userCloser.Close, deleteUserInGroup and            *)
(* DeleteAllTeleportSystemUsers, run against a model of the host's passwd  *)
(* and group databases (the UserManagement interface).                     *)
(*                                                                         *)
(* Every call of a UserManagement method is one atomic step, so that the   *)
(* callers (sessions) and an administrator of the host can interleave      *)
(* between two calls of the same function.                                 *)
(***************************************************************************)
EXTENDS Integers, Sequences, FiniteSets, TLC

(***************************************************************************)
(* Bounds                                                                  *)
(***************************************************************************)
\* number of top-level calls made in one behaviour
MaxOps == 2

\* number of answers by which the host fails for a reason of its own
MaxFaults == 2

\* the sessions that call into the package
Procs == {"s1", "s2"}

\* host accounts in the order useradd would have appended them to passwd
UserNames == <<"root", "alice", "svc1", "svc2">>

\* the usernames and the group lists a caller asks an account for
RequestedNames == {"alice", "svc1"}

RequestedGroups == {<<>>, <<"docker">>}

(***************************************************************************)
(* Program constants                                                       *)
(***************************************************************************)
TeleportServiceGroup == "teleport-system"

groupExistExit == 9

userExistExit == 9

userLoggedInExit == 8

GroupNames == {TeleportServiceGroup, "docker", "staff"}

\* exit code of a primitive that failed for a reason the package does not
\* interpret: -1, as when the binary cannot be found
FaultExits == {-1}

\* user.Group.Gid of a group: one id per group name
Gid(group) ==
    CASE group = TeleportServiceGroup -> 1001
      [] group = "docker" -> 1002
      [] OTHER -> 1003

(***************************************************************************)
(* Errors. nil is a value of the same shape as every other error.          *)
(***************************************************************************)
Error(kind, arg, errs) == [kind |-> kind, arg |-> arg, errs |-> errs]

Nil == Error("nil", "", <<>>)

UnknownUserError(username) == Error("UnknownUserError", username, <<>>)

UnknownGroupError(group) == Error("UnknownGroupError", group, <<>>)

\* any other failure of a lookup (unreadable passwd or group database)
LookupFault == Error("LookupFault", "", <<>>)

\* the *exec.ExitError (or LookPath error) of a primitive that exited with code
ExitError(code) == Error("ExitError", ToString(code), <<>>)

NotFound == Error("NotFound", "failed to find any /etc/passwd entries", <<>>)

AlreadyExists == Error("AlreadyExists", "User already exists", <<>>)

RECURSIVE NonNils(_)
NonNils(errs) ==
    IF errs = <<>> THEN <<>>
    ELSE IF Head(errs) = Nil THEN NonNils(Tail(errs))
    ELSE <<Head(errs)>> \o NonNils(Tail(errs))

\* trace.NewAggregate: nil values are dropped, no error left gives nil
NewAggregate(errs) ==
    IF NonNils(errs) = <<>> THEN Nil ELSE Error("Aggregate", "", NonNils(errs))

\* trace.WrapWithMessage of a non-nil error
WrapWithMessage(err, message) == Error("Wrapped", message, <<err>>)

(***************************************************************************)
(* State                                                                   *)
(***************************************************************************)
VARIABLES
    passwd,     \* the host's accounts, in enumeration order
    memberOf,   \* username -> the groups the account is a member of
    groupDB,    \* the host's groups
    pc,         \* session -> the call of a UserManagement method it is at
    frame,      \* session -> locals and results of its current (or last) call
    prev,       \* session -> frame of the call it completed before
    handles,    \* session -> usernames it holds a *userCloser for
    nops,       \* top-level calls started so far
    nfaults     \* answers by which the host failed for a reason of its own

backend == <<passwd, memberOf, groupDB>>

vars == <<passwd, memberOf, groupDB, pc, frame, prev, handles, nops, nfaults>>

Range(s) == {s[i] : i \in 1..Len(s)}

InPasswd(username) == username \in Range(passwd)

RECURSIVE Without(_, _)
Without(s, x) ==
    IF s = <<>> THEN <<>>
    ELSE IF Head(s) = x THEN Without(Tail(s), x)
    ELSE <<Head(s)>> \o Without(Tail(s), x)

Snapshot == [passwd |-> passwd, memberOf |-> memberOf, groupDB |-> groupDB]

(***************************************************************************)
(* The UserManagement interface over the host's databases. Each method     *)
(* gives the set of results the host can produce in the current state;     *)
(* with F the host may also fail for a reason unrelated to the state, at   *)
(* most MaxFaults times in a behaviour.                                    *)
(***************************************************************************)
\* the host may fail now for a reason of its own
Faulty(F) == F /\ nfaults < MaxFaults

\* mgmt.Lookup
Lookup(username, F) ==
    {[found |-> InPasswd(username),
      err |-> IF InPasswd(username) THEN Nil ELSE UnknownUserError(username),
      fault |-> FALSE]}
    \cup (IF Faulty(F) THEN {[found |-> FALSE, err |-> LookupFault, fault |-> TRUE]} ELSE {})

\* (*user.User).GroupIds: the ids of the groups that list the account now
GroupIds(username, F) ==
    {[ids |-> {Gid(g) : g \in memberOf[username] \cap groupDB},
      err |-> Nil, fault |-> FALSE]}
    \cup (IF Faulty(F) THEN {[ids |-> {}, err |-> LookupFault, fault |-> TRUE]} ELSE {})

\* mgmt.LookupGroup
LookupGroup(group, F) ==
    {[found |-> group \in groupDB,
      gid |-> IF group \in groupDB THEN Gid(group) ELSE 0,
      err |-> IF group \in groupDB THEN Nil ELSE UnknownGroupError(group),
      fault |-> FALSE]}
    \cup (IF Faulty(F) THEN {[found |-> FALSE, gid |-> 0, err |-> LookupFault,
                      fault |-> TRUE]} ELSE {})

\* mgmt.GetAllUsers
GetAllUsers(F) ==
    {[names |-> passwd,
      err |-> IF Len(passwd) = 0 THEN NotFound ELSE Nil,
      fault |-> FALSE]}
    \cup (IF Faulty(F) THEN {[names |-> <<>>, err |-> NotFound, fault |-> TRUE]} ELSE {})

\* mgmt.groupAdd: groupadd(8) exits with 9 when the group exists
groupAdd(group, F) ==
    (IF group \in groupDB
     THEN {[code |-> groupExistExit, err |-> ExitError(groupExistExit),
            groupDB |-> groupDB, fault |-> FALSE]}
     ELSE {[code |-> 0, err |-> Nil, groupDB |-> groupDB \cup {group},
            fault |-> FALSE]})
    \cup (IF Faulty(F) THEN {[code |-> c, err |-> ExitError(c), groupDB |-> groupDB,
                      fault |-> TRUE] : c \in FaultExits} ELSE {})

\* mgmt.userAdd: useradd(8) exits with 9 when the account exists and with 6
\* when one of the groups does not
userAdd(username, groups, F) ==
    (IF InPasswd(username)
     THEN {[code |-> userExistExit, err |-> ExitError(userExistExit),
            passwd |-> passwd, memberOf |-> memberOf, fault |-> FALSE]}
     ELSE IF ~(Range(groups) \subseteq groupDB)
     THEN {[code |-> 6, err |-> ExitError(6),
            passwd |-> passwd, memberOf |-> memberOf, fault |-> FALSE]}
     ELSE {[code |-> 0, err |-> Nil,
            passwd |-> Append(passwd, username),
            memberOf |-> [memberOf EXCEPT ![username] = Range(groups)],
            fault |-> FALSE]})
    \cup (IF Faulty(F) THEN {[code |-> c, err |-> ExitError(c), passwd |-> passwd,
                      memberOf |-> memberOf, fault |-> TRUE] : c \in FaultExits}
          ELSE {})

\* mgmt.userDel: userdel(8) exits with 8 when the account is logged in or
\* runs a process, and with 6 when the account does not exist
userDel(username, F) ==
    (IF ~InPasswd(username)
     THEN {[code |-> 6, err |-> ExitError(6),
            passwd |-> passwd, memberOf |-> memberOf, fault |-> FALSE]}
     ELSE {[code |-> 0, err |-> Nil,
            passwd |-> Without(passwd, username),
            memberOf |-> [memberOf EXCEPT ![username] = {}],
            fault |-> FALSE],
           [code |-> userLoggedInExit, err |-> ExitError(userLoggedInExit),
            passwd |-> passwd, memberOf |-> memberOf, fault |-> FALSE]})
    \cup (IF Faulty(F) THEN {[code |-> c, err |-> ExitError(c), passwd |-> passwd,
                      memberOf |-> memberOf, fault |-> TRUE] : c \in FaultExits}
          ELSE {})

(***************************************************************************)
(* Frames: the arguments, locals and results of a top-level call, and what *)
(* the host answered during it (calls, dugLog, faults, mark and pre are a   *)
(* record of the run, no code reads them).                                 *)
(***************************************************************************)
NoFrame ==
    [op |-> "none", username |-> "", groups |-> <<>>, group |-> "",
     i |-> 0, ret |-> "", gid |-> 0, u |-> "", users |-> <<>>, errs |-> <<>>,
     groupsCreated |-> <<>>, closer |-> FALSE, err |-> Nil, done |-> FALSE,
     calls |-> <<>>, dugLog |-> <<>>, faults |-> 0, mark |-> 0,
     pre |-> Snapshot]

NewFrame(op) == [NoFrame EXCEPT !.op = op]

\* a call of a UserManagement method and what the host answered; code is 0
\* for the methods that give no exit code
Call(prim, arg, code, err) ==
    [prim |-> prim, arg |-> arg, code |-> code, err |-> err]

\* the frame after the host answered the call c with out
Answered(f, c, out) ==
    [f EXCEPT !.faults = IF out.fault THEN @ + 1 ELSE @,
              !.calls = Append(@, c)]

\* the top-level call returns
Return(f, closer, groupsCreated, err) ==
    [pc |-> "idle",
     frame |-> [f EXCEPT !.closer = closer, !.groupsCreated = groupsCreated,
                         !.err = err, !.done = TRUE]]

Goto(label, f) == [pc |-> label, frame |-> f]

(***************************************************************************)
(* The decisions the package takes on what the host answered.              *)
(***************************************************************************)
\* createGroupIfNotExist: the lookup failed for another reason than
\* "unknown group"
LookupGroupFailed(err, group) == err /= Nil /\ err /= UnknownGroupError(group)

\* a createGroupIfNotExist that reports every failure of groupAdd
groupAddResult_noExistExit(code, err) == err

\* createGroupIfNotExist: what it returns after groupAdd
groupAddResult(code, err) == IF code = groupExistExit THEN Nil ELSE err

\* a createTemporaryUser that takes every failed lookup for "unknown user"
LookupFailed_never(err, username) == FALSE

\* createTemporaryUser: the lookup failed for another reason than
\* "unknown user"
LookupFailed(err, username) == err /= Nil /\ err /= UnknownUserError(username)

\* a createTemporaryUser that reports every failure of userAdd
userAddFailed_noExistExit(code, err) == err /= Nil

\* createTemporaryUser: userAdd failed
userAddFailed(code, err) == code /= userExistExit /\ err /= Nil

\* a deleteUserInGroup that deletes every account that is in some group
InGroup_anyGroup(ids, gid) == ids /= {}

\* deleteUserInGroup: the loop over ids finds gid
InGroup(ids, gid) == gid \in ids

\* a deleteUserInGroup that compares with the exit code of another primitive
userDelResult_wrongExit(code, err) == IF code = userExistExit THEN Nil ELSE err

\* deleteUserInGroup: what it returns after userDel
userDelResult(code, err) == IF code = userLoggedInExit THEN Nil ELSE err

\* a createTemporaryUser that gives up at the first group whose bootstrap
\* failed
createGroupIfNotExist_return_stopAtError(f, err) ==
    IF f.ret = "caller" THEN Return(f, FALSE, <<>>, err)
    ELSE LET gl == Append(f.groups, TeleportServiceGroup)
             g == [f EXCEPT
                     !.errs = IF err /= Nil THEN Append(@, err) ELSE @,
                     !.groupsCreated = IF err /= Nil THEN @
                                       ELSE Append(@, f.group),
                     !.i = @ + 1]
         IN  IF g.i <= Len(gl) /\ err = Nil
             THEN Goto("createGroupIfNotExist:LookupGroup",
                       [g EXCEPT !.group = gl[g.i]])
             ELSE IF NewAggregate(g.errs) /= Nil
             THEN Return(g, FALSE, g.groupsCreated,
                         WrapWithMessage(NewAggregate(g.errs),
                                         "error while creating groups"))
             ELSE Goto("createTemporaryUser:userAdd", g)

\* createGroupIfNotExist returns err: to the caller of the package, or into
\* the loop of createTemporaryUser over append(groups, TeleportServiceGroup)
createGroupIfNotExist_return(f, err) ==
    IF f.ret = "caller" THEN Return(f, FALSE, <<>>, err)
    ELSE LET gl == Append(f.groups, TeleportServiceGroup)
             g == [f EXCEPT
                     !.errs = IF err /= Nil THEN Append(@, err) ELSE @,
                     !.groupsCreated = IF err /= Nil THEN @
                                       ELSE Append(@, f.group),
                     !.i = @ + 1]
         IN  IF g.i <= Len(gl)
             THEN Goto("createGroupIfNotExist:LookupGroup",
                       [g EXCEPT !.group = gl[g.i]])
             ELSE IF NewAggregate(g.errs) /= Nil
             THEN Return(g, FALSE, g.groupsCreated,
                         WrapWithMessage(NewAggregate(g.errs),
                                         "error while creating groups"))
             ELSE Goto("createTemporaryUser:userAdd", g)

\* a sweep that returns at the first account whose deletion failed
deleteUserInGroup_return_stopAtError(f, err) ==
    LET g == [f EXCEPT !.dugLog = Append(@, [user |-> f.u, err |-> err,
                                             faulted |-> f.faults > f.mark])]
    IN  IF g.ret = "Close" THEN Return(g, FALSE, <<>>, err)
        ELSE LET h == [g EXCEPT !.errs = Append(@, err), !.i = @ + 1]
             IN  IF h.i <= Len(h.users) /\ err = Nil
                 THEN Goto("deleteUserInGroup:Lookup",
                           [h EXCEPT !.u = h.users[h.i], !.mark = h.faults])
                 ELSE Return(h, FALSE, <<>>, NewAggregate(h.errs))

\* deleteUserInGroup returns err: to Close, or into the loop of
\* DeleteAllTeleportSystemUsers over users
deleteUserInGroup_return(f, err) ==
    LET g == [f EXCEPT !.dugLog = Append(@, [user |-> f.u, err |-> err,
                                             faulted |-> f.faults > f.mark])]
    IN  IF g.ret = "Close" THEN Return(g, FALSE, <<>>, err)
        ELSE LET h == [g EXCEPT !.errs = Append(@, err), !.i = @ + 1]
             IN  IF h.i <= Len(h.users)
                 THEN Goto("deleteUserInGroup:Lookup",
                           [h EXCEPT !.u = h.users[h.i], !.mark = h.faults])
                 ELSE Return(h, FALSE, <<>>, NewAggregate(h.errs))

(***************************************************************************)
(* Steps of a session p                                                    *)
(***************************************************************************)
\* p moves to nxt.pc with frame nxt.frame; a returned *userCloser is kept
Step(p, nxt) ==
    /\ pc' = [pc EXCEPT ![p] = nxt.pc]
    /\ frame' = [frame EXCEPT ![p] = nxt.frame]
    /\ handles' = [handles EXCEPT ![p] =
                     IF nxt.frame.done /\ nxt.frame.closer
                     THEN @ \cup {nxt.frame.username} ELSE @]
    /\ nfaults' = nfaults + (nxt.frame.faults - frame[p].faults)
    /\ UNCHANGED <<prev, nops>>

\* p starts a top-level call with frame f at label
Enter(p, label, f) ==
    /\ pc[p] = "idle"
    /\ nops < MaxOps
    /\ nops' = nops + 1
    /\ pc' = [pc EXCEPT ![p] = label]
    /\ prev' = [prev EXCEPT ![p] = frame[p]]
    /\ frame' = [frame EXCEPT ![p] = [f EXCEPT !.pre = Snapshot]]
    /\ UNCHANGED <<backend, handles, nfaults>>

Call_createGroupIfNotExist(p, group) ==
    Enter(p, "createGroupIfNotExist:LookupGroup",
          [NewFrame("createGroupIfNotExist") EXCEPT
             !.group = group, !.ret = "caller"])

createGroupIfNotExist_LookupGroup(p, F) ==
    /\ pc[p] = "createGroupIfNotExist:LookupGroup"
    /\ \E out \in LookupGroup(frame[p].group, F) :
         LET f == Answered(frame[p],
                           Call("LookupGroup", frame[p].group, 0, out.err), out)
         IN  Step(p, IF LookupGroupFailed(out.err, f.group)
                     THEN createGroupIfNotExist_return(f, out.err)
                     ELSE Goto("createGroupIfNotExist:groupAdd", f))
    /\ UNCHANGED backend

createGroupIfNotExist_groupAdd(p, F) ==
    /\ pc[p] = "createGroupIfNotExist:groupAdd"
    /\ \E out \in groupAdd(frame[p].group, F) :
         LET f == Answered(frame[p],
                           Call("groupAdd", frame[p].group, out.code, out.err),
                           out)
         IN  /\ groupDB' = out.groupDB
             /\ Step(p, createGroupIfNotExist_return(
                            f, groupAddResult(out.code, out.err)))
    /\ UNCHANGED <<passwd, memberOf>>

\* a createTemporaryUser that gives no closer for an account that exists
createTemporaryUser_exists_noCloser(f) == Return(f, FALSE, <<>>, AlreadyExists)

\* createTemporaryUser: what it returns for an account that exists
createTemporaryUser_exists(f) == Return(f, TRUE, <<>>, AlreadyExists)

Call_createTemporaryUser(p, username, groups) ==
    Enter(p, "createTemporaryUser:Lookup",
          [NewFrame("createTemporaryUser") EXCEPT
             !.username = username, !.groups = groups])

\* a createTemporaryUser that goes on to the groups for an account that
\* exists
createTemporaryUser_Lookup_noReturn(p, F) ==
    /\ pc[p] = "createTemporaryUser:Lookup"
    /\ \E out \in Lookup(frame[p].username, F) :
         LET f == Answered(frame[p],
                           Call("Lookup", frame[p].username, 0, out.err), out)
         IN  Step(p, IF LookupFailed(out.err, f.username)
                     THEN Return(f, FALSE, <<>>, out.err)
                     ELSE Goto("createGroupIfNotExist:LookupGroup",
                               [f EXCEPT
                                  !.i = 1, !.ret = "createTemporaryUser",
                                  !.group = Append(f.groups,
                                                   TeleportServiceGroup)[1]]))
    /\ UNCHANGED backend

createTemporaryUser_Lookup(p, F) ==
    /\ pc[p] = "createTemporaryUser:Lookup"
    /\ \E out \in Lookup(frame[p].username, F) :
         LET f == Answered(frame[p],
                           Call("Lookup", frame[p].username, 0, out.err), out)
         IN  Step(p, IF LookupFailed(out.err, f.username)
                     THEN Return(f, FALSE, <<>>, out.err)
                     ELSE IF out.found
                     THEN createTemporaryUser_exists(f)
                     ELSE Goto("createGroupIfNotExist:LookupGroup",
                               [f EXCEPT
                                  !.i = 1, !.ret = "createTemporaryUser",
                                  !.group = Append(f.groups,
                                                   TeleportServiceGroup)[1]]))
    /\ UNCHANGED backend

\* a createTemporaryUser that asks userAdd for the requested groups only
createTemporaryUser_userAdd_noMarker(p, F) ==
    /\ pc[p] = "createTemporaryUser:userAdd"
    /\ \E out \in userAdd(frame[p].username, frame[p].groups, F) :
         LET f == Answered(frame[p],
                           Call("userAdd", frame[p].username, out.code,
                                out.err), out)
         IN  /\ passwd' = out.passwd
             /\ memberOf' = out.memberOf
             /\ Step(p, IF userAddFailed(out.code, out.err)
                        THEN Return(f, FALSE, f.groupsCreated,
                                    WrapWithMessage(out.err,
                                                    "error while creating user"))
                        ELSE Return(f, TRUE, f.groupsCreated, Nil))
    /\ UNCHANGED groupDB

createTemporaryUser_userAdd(p, F) ==
    /\ pc[p] = "createTemporaryUser:userAdd"
    /\ \E out \in userAdd(frame[p].username,
                          Append(frame[p].groups, TeleportServiceGroup), F) :
         LET f == Answered(frame[p],
                           Call("userAdd", frame[p].username, out.code,
                                out.err), out)
         IN  /\ passwd' = out.passwd
             /\ memberOf' = out.memberOf
             /\ Step(p, IF userAddFailed(out.code, out.err)
                        THEN Return(f, FALSE, f.groupsCreated,
                                    WrapWithMessage(out.err,
                                                    "error while creating user"))
                        ELSE Return(f, TRUE, f.groupsCreated, Nil))
    /\ UNCHANGED groupDB

Call_Close(p, username) ==
    /\ username \in handles[p]
    /\ Enter(p, "Close:LookupGroup",
             [NewFrame("Close") EXCEPT !.username = username])

Close_LookupGroup(p, F) ==
    /\ pc[p] = "Close:LookupGroup"
    /\ \E out \in LookupGroup(TeleportServiceGroup, F) :
         LET f == Answered(frame[p],
                           Call("LookupGroup", TeleportServiceGroup, 0,
                                out.err), out)
         IN  Step(p, IF out.err /= Nil
                     THEN Return(f, FALSE, <<>>, out.err)
                     ELSE Goto("deleteUserInGroup:Lookup",
                               [f EXCEPT !.gid = out.gid, !.u = f.username,
                                         !.mark = f.faults, !.ret = "Close"]))
    /\ UNCHANGED backend

\* a deleteUserInGroup that does not look at the error of Lookup
deleteUserInGroup_Lookup_unchecked(p, F) ==
    /\ pc[p] = "deleteUserInGroup:Lookup"
    /\ \E out \in Lookup(frame[p].u, F) :
         LET f == Answered(frame[p], Call("Lookup", frame[p].u, 0, out.err), out)
         IN  Step(p, Goto("deleteUserInGroup:GroupIds", f))
    /\ UNCHANGED backend

deleteUserInGroup_Lookup(p, F) ==
    /\ pc[p] = "deleteUserInGroup:Lookup"
    /\ \E out \in Lookup(frame[p].u, F) :
         LET f == Answered(frame[p], Call("Lookup", frame[p].u, 0, out.err), out)
         IN  Step(p, IF out.err /= Nil
                     THEN deleteUserInGroup_return(f, out.err)
                     ELSE Goto("deleteUserInGroup:GroupIds", f))
    /\ UNCHANGED backend

deleteUserInGroup_GroupIds(p, F) ==
    /\ pc[p] = "deleteUserInGroup:GroupIds"
    /\ \E out \in GroupIds(frame[p].u, F) :
         LET f == Answered(frame[p], Call("GroupIds", frame[p].u, 0, out.err),
                           out)
         IN  Step(p, IF out.err /= Nil
                     THEN deleteUserInGroup_return(f, out.err)
                     ELSE IF InGroup(out.ids, f.gid)
                     THEN Goto("deleteUserInGroup:userDel", f)
                     ELSE deleteUserInGroup_return(f, Nil))
    /\ UNCHANGED backend

deleteUserInGroup_userDel(p, F) ==
    /\ pc[p] = "deleteUserInGroup:userDel"
    /\ \E out \in userDel(frame[p].u, F) :
         LET f == Answered(frame[p],
                           Call("userDel", frame[p].u, out.code, out.err), out)
         IN  /\ passwd' = out.passwd
             /\ memberOf' = out.memberOf
             /\ Step(p, deleteUserInGroup_return(
                            f, userDelResult(out.code, out.err)))
    /\ UNCHANGED groupDB

Call_DeleteAllTeleportSystemUsers(p) ==
    Enter(p, "DeleteAllTeleportSystemUsers:GetAllUsers",
          NewFrame("DeleteAllTeleportSystemUsers"))

DeleteAllTeleportSystemUsers_GetAllUsers(p, F) ==
    /\ pc[p] = "DeleteAllTeleportSystemUsers:GetAllUsers"
    /\ \E out \in GetAllUsers(F) :
         LET f == Answered(frame[p], Call("GetAllUsers", "", 0, out.err), out)
         IN  Step(p, IF out.err /= Nil
                     THEN Return(f, FALSE, <<>>, out.err)
                     ELSE Goto("DeleteAllTeleportSystemUsers:LookupGroup",
                               [f EXCEPT !.users = out.names]))
    /\ UNCHANGED backend

\* a sweep that goes on when the lookup of TeleportServiceGroup failed
DeleteAllTeleportSystemUsers_LookupGroup_unchecked(p, F) ==
    /\ pc[p] = "DeleteAllTeleportSystemUsers:LookupGroup"
    /\ \E out \in LookupGroup(TeleportServiceGroup, F) :
         LET f == Answered(frame[p],
                           Call("LookupGroup", TeleportServiceGroup, 0,
                                out.err), out)
         IN  Step(p, IF Len(f.users) = 0
                     THEN Return(f, FALSE, <<>>, NewAggregate(<<>>))
                     ELSE Goto("deleteUserInGroup:Lookup",
                               [f EXCEPT !.gid = out.gid, !.i = 1,
                                         !.u = f.users[1], !.mark = f.faults,
                                         !.ret = "DeleteAllTeleportSystemUsers"]))
    /\ UNCHANGED backend

DeleteAllTeleportSystemUsers_LookupGroup(p, F) ==
    /\ pc[p] = "DeleteAllTeleportSystemUsers:LookupGroup"
    /\ \E out \in LookupGroup(TeleportServiceGroup, F) :
         LET f == Answered(frame[p],
                           Call("LookupGroup", TeleportServiceGroup, 0,
                                out.err), out)
         IN  Step(p, IF out.err /= Nil
                     THEN Return(f, FALSE, <<>>, out.err)
                     ELSE IF Len(f.users) = 0
                     THEN Return(f, FALSE, <<>>, NewAggregate(<<>>))
                     ELSE Goto("deleteUserInGroup:Lookup",
                               [f EXCEPT !.gid = out.gid, !.i = 1,
                                         !.u = f.users[1], !.mark = f.faults,
                                         !.ret = "DeleteAllTeleportSystemUsers"]))
    /\ UNCHANGED backend

(***************************************************************************)
(* Initial hosts and the specifications                                    *)
(***************************************************************************)
\* the hosts a behaviour starts from: root is an account of the host; each
\* other account is absent, an account of the host's own (member of staff),
\* or one made by this package (member of TeleportServiceGroup)
InitialKinds ==
    {k \in [{"alice", "svc1", "svc2"} -> {"absent", "own", "managed"}] :
       k["svc1"] /= "own" /\ k["svc2"] /= "own"}

Init ==
    \E kind \in InitialKinds, marker \in BOOLEAN :
      LET Kind(n) == IF n = "root" THEN "own0" ELSE kind[n]
          present(n) == Kind(n) /= "absent"
          members == [n \in Range(UserNames) |->
                        CASE Kind(n) = "own" -> {"staff"}
                          [] Kind(n) = "managed" -> {TeleportServiceGroup}
                          [] OTHER -> {}]
      IN  /\ passwd = SelectSeq(UserNames, present)
          /\ memberOf = members
          /\ groupDB = UNION {members[n] : n \in Range(UserNames)}
                         \cup (IF marker THEN {TeleportServiceGroup} ELSE {})
    /\ pc = [p \in Procs |-> "idle"]
    /\ frame = [p \in Procs |-> NoFrame]
    /\ prev = [p \in Procs |-> NoFrame]
    /\ handles = [p \in Procs |-> {}]
    /\ nops = 0
    /\ nfaults = 0

\* session p creates accounts
Create(p, F) ==
    \/ \E n \in RequestedNames, gs \in RequestedGroups :
         Call_createTemporaryUser(p, n, gs)
    \/ createTemporaryUser_Lookup(p, F)
    \/ createGroupIfNotExist_LookupGroup(p, F)
    \/ createGroupIfNotExist_groupAdd(p, F)
    \/ createTemporaryUser_userAdd(p, F)

\* session p closes its closers and sweeps the host
Delete(p, F) ==
    \/ \E n \in RequestedNames : Call_Close(p, n)
    \/ Close_LookupGroup(p, F)
    \/ deleteUserInGroup_Lookup(p, F)
    \/ deleteUserInGroup_GroupIds(p, F)
    \/ deleteUserInGroup_userDel(p, F)
    \/ Call_DeleteAllTeleportSystemUsers(p)
    \/ DeleteAllTeleportSystemUsers_GetAllUsers(p, F)
    \/ DeleteAllTeleportSystemUsers_LookupGroup(p, F)

\* the calls and steps of session p
Session(p, F) ==
    \/ \E g \in GroupNames : Call_createGroupIfNotExist(p, g)
    \/ Create(p, F)
    \/ Delete(p, F)

\* one caller, a host that may fail
Next == \E p \in {"s1"} : Session(p, TRUE)

Spec == Init /\ [][Next]_vars

\* sessions that create accounts at the same time, on a host that answers
NextCreate == \E p \in Procs : Create(p, FALSE)

SpecCreate == Init /\ [][NextCreate]_vars

\* sessions that create accounts at the same time, on a host that may fail
NextRace == \E p \in Procs : Create(p, TRUE)

SpecRace == Init /\ [][NextRace]_vars

\* p starts a call that follows from the call it just returned from
Follow(p, label, f) ==
    /\ pc[p] = "idle"
    /\ pc' = [pc EXCEPT ![p] = label]
    /\ prev' = [prev EXCEPT ![p] = frame[p]]
    /\ frame' = [frame EXCEPT ![p] = [f EXCEPT !.pre = Snapshot]]
    /\ UNCHANGED <<backend, handles, nops, nfaults>>

\* p calls Close once more on the closer it just closed
Call_Close_again(p) ==
    /\ frame[p].op = "Close" /\ frame[p].done
    /\ prev[p].op /= "Close"
    /\ Follow(p, "Close:LookupGroup",
              [NewFrame("Close") EXCEPT !.username = frame[p].username])

\* the steps of Close in session p
Closing(p, F) ==
    \/ Close_LookupGroup(p, F)
    \/ deleteUserInGroup_Lookup(p, F)
    \/ deleteUserInGroup_GroupIds(p, F)
    \/ deleteUserInGroup_userDel(p, F)

\* one caller that creates accounts and closes its closers, also twice, on a
\* host that may fail
NextClose ==
    \E p \in {"s1"} :
      \/ Create(p, TRUE)
      \/ \E n \in RequestedNames : Call_Close(p, n)
      \/ Call_Close_again(p)
      \/ Closing(p, TRUE)

SpecClose == Init /\ [][NextClose]_vars

\* the session of p for the account u runs: createTemporaryUser gave p a
\* closer for u and p has not called Close since
Open(p, u) ==
    /\ frame[p].op = "createTemporaryUser" /\ frame[p].done /\ frame[p].closer
    /\ frame[p].username = u

\* the session of p ends and p calls Close on its closer
Call_Close_deferred(p) ==
    /\ Open(p, frame[p].username)
    /\ Follow(p, "Close:LookupGroup",
              [NewFrame("Close") EXCEPT !.username = frame[p].username])

\* userDel on a host where an account is busy exactly while the session of
\* another caller runs for it
deleteUserInGroup_userDel_sessions(p) ==
    /\ deleteUserInGroup_userDel(p, FALSE)
    /\ LET c == frame'[p].calls[Len(frame'[p].calls)]
       IN  c.code \in {0, userLoggedInExit} =>
             (c.code = userLoggedInExit
                <=> \E q \in Procs \ {p} : Open(q, c.arg))

\* p serves sessions: it creates the account when a session starts and
\* closes the closer when the session ends
Serve(p) ==
    \/ /\ \A n \in RequestedNames : ~Open(p, n)
       /\ \E n \in RequestedNames, gs \in RequestedGroups :
            Call_createTemporaryUser(p, n, gs)
    \/ createTemporaryUser_Lookup(p, FALSE)
    \/ createGroupIfNotExist_LookupGroup(p, FALSE)
    \/ createGroupIfNotExist_groupAdd(p, FALSE)
    \/ createTemporaryUser_userAdd(p, FALSE)
    \/ Call_Close_deferred(p)
    \/ Close_LookupGroup(p, FALSE)
    \/ deleteUserInGroup_Lookup(p, FALSE)
    \/ deleteUserInGroup_GroupIds(p, FALSE)
    \/ deleteUserInGroup_userDel_sessions(p)

\* callers that serve sessions at the same time, on a host that answers
NextSessions == \E p \in Procs : Serve(p)

SpecSessions == Init /\ [][NextSessions]_vars

\* the administrator of the host runs userdel for an account of the package
Admin_userdel(n) ==
    /\ InPasswd(n)
    /\ TeleportServiceGroup \in memberOf[n]
    /\ \E out \in userDel(n, FALSE) :
         /\ out.code = 0
         /\ passwd' = out.passwd
         /\ memberOf' = out.memberOf
    /\ UNCHANGED <<groupDB, pc, frame, prev, handles, nops, nfaults>>

\* the administrator of the host runs useradd for an account of the host's
\* own, in no group
Admin_useradd(n) ==
    /\ ~InPasswd(n)
    /\ \E out \in userAdd(n, <<>>, FALSE) :
         /\ out.code = 0
         /\ passwd' = out.passwd
         /\ memberOf' = out.memberOf
    /\ UNCHANGED <<groupDB, pc, frame, prev, handles, nops, nfaults>>

\* one caller and the administrator of the host, on a host that answers
NextAdmin ==
    \/ \E p \in {"s1"} : Create(p, FALSE) \/ Delete(p, FALSE)
    \/ \E n \in RequestedNames : Admin_userdel(n)
    \/ \E n \in RequestedNames : Admin_useradd(n)

SpecAdmin == Init /\ [][NextAdmin]_vars

\* session p makes sure that groups exist
Bootstrap(p, F) ==
    \/ \E g \in GroupNames : Call_createGroupIfNotExist(p, g)
    \/ createGroupIfNotExist_LookupGroup(p, F)
    \/ createGroupIfNotExist_groupAdd(p, F)

\* sessions that call createGroupIfNotExist at the same time, on a host that
\* answers
NextBootstrap == \E p \in Procs : Bootstrap(p, FALSE)

SpecBootstrap == Init /\ [][NextBootstrap]_vars

(***************************************************************************)
(* Properties                                                              *)
(***************************************************************************)
\* the account n existed when the call of frame f started, and was then
\* not a member of TeleportServiceGroup
Unmanaged(f, n) ==
    /\ n \in Range(f.pre.passwd)
    /\ TeleportServiceGroup \notin f.pre.memberOf[n]

\* the account n existed when the call of frame f started, and was then a
\* member of TeleportServiceGroup
Managed(f, n) ==
    /\ n \in Range(f.pre.passwd)
    /\ TeleportServiceGroup \in f.pre.memberOf[n]

\* the calls of groupAdd, userAdd and userDel made in frame f
Mutations(f) ==
    {k \in 1..Len(f.calls) : f.calls[k].prim \in {"groupAdd", "userAdd", "userDel"}}

\* the calls of userDel for n made in frame f
userDelCalls(f, n) ==
    {k \in 1..Len(f.calls) : f.calls[k].prim = "userDel" /\ f.calls[k].arg = n}

\* the runs of deleteUserInGroup for n that returned in frame f
Deletions(f, n) == {k \in 1..Len(f.dugLog) : f.dugLog[k].user = n}

\* C1: deletion safety. For an account that exists and is not a member of
\* TeleportServiceGroup, deleteUserInGroup (run by Close or by the sweep)
\* never calls userDel, returns nil whenever the host resolved the account,
\* and the account is still in passwd afterwards.
C1_DeletionSafety ==
    \A n \in Range(UserNames) :
      LET f == frame["s1"]
      IN  Unmanaged(f, n) =>
            /\ userDelCalls(f, n) = {}
            /\ \A k \in Deletions(f, n) :
                 ~f.dugLog[k].faulted => f.dugLog[k].err = Nil
            /\ InPasswd(n)

\* deleteUserInGroup ran to its end for an account of the host's own, inside
\* a sweep that also deleted an account of the package
C1_Witness ==
    LET f == frame["s1"]
    IN  /\ f.op = "DeleteAllTeleportSystemUsers" /\ f.done
        /\ Unmanaged(f, "alice") /\ f.pre.memberOf["alice"] = {"staff"}
        /\ \E k \in Deletions(f, "alice") :
             ~f.dugLog[k].faulted /\ f.dugLog[k].err = Nil
        /\ \E k \in 1..Len(f.calls) :
             f.calls[k] = Call("userDel", "svc1", 0, Nil)

\* C2: Close of a closer whose account exists and is not a member of
\* TeleportServiceGroup does nothing and returns nil, whether or not the
\* group exists (the host answers every call of this Close).
C2_CloseUnmanaged ==
    LET f == frame["s1"]
    IN  (f.op = "Close" /\ f.done /\ Unmanaged(f, f.username) /\ f.faults = 0)
          => /\ f.err = Nil
             /\ Mutations(f) = {}
             /\ Snapshot = f.pre

\* C3: busy-account tolerance. When userDel of a member of
\* TeleportServiceGroup exits with userLoggedInExit, deleteUserInGroup
\* returns nil and the account stays in passwd; when it exits with any other
\* failing code, deleteUserInGroup returns that error.
C3_BusyTolerance ==
    \A n \in Range(UserNames) :
      LET f == frame["s1"]
      IN  \A c \in userDelCalls(f, n), k \in Deletions(f, n) :
            /\ Managed(f, n)
            /\ f.calls[c].code = userLoggedInExit
                 => f.dugLog[k].err = Nil /\ InPasswd(n)
            /\ f.calls[c].code \notin {0, userLoggedInExit}
                 => f.dugLog[k].err = ExitError(f.calls[c].code)

\* a sweep in which userDel reported busy for one account and failed
\* otherwise for another
C3_Witness ==
    LET f == frame["s1"]
    IN  /\ f.done
        /\ \E c \in userDelCalls(f, "svc1") :
             f.calls[c].code = userLoggedInExit
        /\ \E k \in Deletions(f, "svc1") : f.dugLog[k].err = Nil
        /\ InPasswd("svc1")
        /\ \E c \in userDelCalls(f, "svc2") : f.calls[c].code = -1
        /\ \E k \in Deletions(f, "svc2") : f.dugLog[k].err = ExitError(-1)

\* C4: createTemporaryUser for a username that Lookup resolves returns a
\* closer for that username together with AlreadyExists.
C4_ExistingAccount ==
    LET f == frame["s1"]
    IN  (/\ f.op = "createTemporaryUser" /\ f.done
         /\ f.username \in Range(f.pre.passwd)
         /\ f.faults = 0)
          => /\ f.closer
             /\ f.username \in handles["s1"]
             /\ f.err = AlreadyExists

\* createTemporaryUser returned for an account of the host's own
C4_Witness ==
    LET f == frame["s1"]
    IN  /\ f.op = "createTemporaryUser" /\ f.done /\ f.faults = 0
        /\ Unmanaged(f, f.username)
        /\ f.closer /\ f.err = AlreadyExists

\* the users deleteUserInGroup returned for in frame f, in order
Attempted(f) == [k \in 1..Len(f.dugLog) |-> f.dugLog[k].user]

\* the calls of frame f that the host answered with a failure that
\* deleteUserInGroup reports: a failed Lookup or GroupIds, a userDel that
\* failed with another exit code than userLoggedInExit
FailedDeletions(f) ==
    {k \in 1..Len(f.calls) :
       \/ f.calls[k].prim \in {"Lookup", "GroupIds"} /\ f.calls[k].err /= Nil
       \/ /\ f.calls[k].prim = "userDel"
          /\ f.calls[k].code \notin {0, userLoggedInExit}}

\* the sweep of frame f enumerated the accounts and resolved the group
Sweeping(f) ==
    /\ f.op = "DeleteAllTeleportSystemUsers"
    /\ \E k \in 1..Len(f.calls) :
         f.calls[k].prim = "LookupGroup" /\ f.calls[k].err = Nil

\* C6: bulk aggregation. DeleteAllTeleportSystemUsers runs deleteUserInGroup
\* for every enumerated account in enumeration order, whatever the earlier
\* ones returned; its result is nil when no deletion failed and else an
\* aggregate of exactly one error per failed deletion, in that order.
C6_BulkAggregation ==
    LET f == frame["s1"]
    IN  Sweeping(f) =>
          /\ Attempted(f) = SubSeq(f.pre.passwd, 1, Len(f.dugLog))
          /\ f.done =>
               /\ Attempted(f) = f.pre.passwd
               /\ FailedDeletions(f) = {} <=> f.err = Nil
               /\ FailedDeletions(f) /= {} =>
                    /\ f.err.kind = "Aggregate"
                    /\ Len(f.err.errs) = Cardinality(FailedDeletions(f))
                    /\ \E m \in [1..Len(f.err.errs) -> FailedDeletions(f)] :
                         /\ \A a, b \in 1..Len(f.err.errs) :
                              a < b => m[a] < m[b]
                         /\ \A a \in 1..Len(f.err.errs) :
                              f.err.errs[a] = f.calls[m[a]].err

\* three accounts of the package; userDel of the second fails with another
\* code than busy, the third is still deleted and the aggregate has one error
C6_Witness ==
    LET f == frame["s1"]
    IN  /\ Sweeping(f) /\ f.done
        /\ f.pre.passwd = <<"root", "alice", "svc1", "svc2">>
        /\ \A n \in {"alice", "svc1", "svc2"} : Managed(f, n)
        /\ passwd = <<"root", "svc1">>
        /\ \E c \in userDelCalls(f, "svc1") : f.calls[c].code = -1
        /\ f.err = Error("Aggregate", "", <<ExitError(-1)>>)

\* the calls of frame f by which the sweep failed before its loop: a failed
\* GetAllUsers, a failed LookupGroup
FailedPreconditions(f) ==
    {k \in 1..Len(f.calls) :
       /\ f.calls[k].prim \in {"GetAllUsers", "LookupGroup"}
       /\ f.calls[k].err /= Nil}

\* C7: fatal preconditions of the sweep. When GetAllUsers fails, or
\* LookupGroup of TeleportServiceGroup fails (as it does when the group does
\* not exist), DeleteAllTeleportSystemUsers returns that error, calls userDel
\* for no account and leaves the host as it was.
C7_FatalPreconditions ==
    LET f == frame["s1"]
    IN  f.op = "DeleteAllTeleportSystemUsers" =>
          /\ (f.done /\ TeleportServiceGroup \notin f.pre.groupDB)
               => FailedPreconditions(f) /= {}
          /\ \A k \in FailedPreconditions(f) :
               /\ f.done /\ f.err = f.calls[k].err
               /\ k = Len(f.calls)
               /\ Mutations(f) = {}
               /\ f.dugLog = <<>>
               /\ Snapshot = f.pre

\* a sweep on a host with accounts and no TeleportServiceGroup
C7_Witness ==
    LET f == frame["s1"]
    IN  /\ f.op = "DeleteAllTeleportSystemUsers" /\ f.done
        /\ TeleportServiceGroup \notin f.pre.groupDB
        /\ Len(f.pre.passwd) >= 2
        /\ f.faults = 0
        /\ f.err = UnknownGroupError(TeleportServiceGroup)

\* C8: idempotent group bootstrap. When createGroupIfNotExist returned nil
\* for a group and is called again for it, and the host answers the second
\* call, the second call returns nil; the group exists after each of them.
C8_IdempotentBootstrap ==
    LET f == frame["s1"]
        g == prev["s1"]
    IN  /\ (f.op = "createGroupIfNotExist" /\ f.done /\ f.err = Nil)
             => f.group \in groupDB
        /\ (/\ f.op = "createGroupIfNotExist" /\ f.done /\ f.faults = 0
            /\ g.op = "createGroupIfNotExist" /\ g.group = f.group
            /\ g.err = Nil)
             => f.err = Nil /\ f.group \in groupDB

\* the first call created the group, the second found it
C8_Witness ==
    LET f == frame["s1"]
        g == prev["s1"]
    IN  /\ f.op = "createGroupIfNotExist" /\ f.done /\ f.faults = 0
        /\ g.op = "createGroupIfNotExist" /\ g.group = f.group /\ g.err = Nil
        /\ f.group \notin g.pre.groupDB
        /\ f.group \in groupDB
        /\ f.err = Nil

\* session p returned from createTemporaryUser(n, gs)
Created(p, n, gs) ==
    /\ frame[p].op = "createTemporaryUser" /\ frame[p].done
    /\ frame[p].username = n /\ frame[p].groups = gs

\* C5: managed accounts carry the marker. Whenever createTemporaryUser
\* returns a closer and nil, the account exists and is a member of
\* TeleportServiceGroup and of every requested group.
C5_ManagedCarryMarker ==
    \A p \in Procs :
      LET f == frame[p]
      IN  (f.op = "createTemporaryUser" /\ f.done /\ f.closer /\ f.err = Nil)
            => /\ InPasswd(f.username)
               /\ TeleportServiceGroup \in memberOf[f.username]
               /\ Range(f.groups) \subseteq memberOf[f.username]

\* C9: concurrent creation for the same username. When two calls of
\* createTemporaryUser for the same username and groups both start while the
\* account does not exist, each returns a closer and nil or AlreadyExists,
\* and then the account is in passwd once and is a member of
\* TeleportServiceGroup.
C9_ConcurrentCreate ==
    \A p, q \in Procs, n \in RequestedNames, gs \in RequestedGroups :
      (/\ p /= q
       /\ Created(p, n, gs) /\ Created(q, n, gs)
       /\ n \notin Range(frame[p].pre.passwd)
       /\ n \notin Range(frame[q].pre.passwd))
        => /\ frame[p].closer /\ frame[p].err \in {Nil, AlreadyExists}
           /\ n \in handles[p]
           /\ Cardinality({k \in 1..Len(passwd) : passwd[k] = n}) = 1
           /\ TeleportServiceGroup \in memberOf[n]

\* both calls found the account and the groups missing; one lost both the
\* race for the group and the race for the account
C9_Witness ==
    /\ Created("s1", "svc1", <<>>) /\ Created("s2", "svc1", <<>>)
    /\ "svc1" \notin Range(frame["s1"].pre.passwd)
    /\ "svc1" \notin Range(frame["s2"].pre.passwd)
    /\ TeleportServiceGroup \notin frame["s1"].pre.groupDB
    /\ frame["s1"].err = Nil /\ frame["s2"].err = Nil
    /\ \E k \in 1..Len(frame["s2"].calls) :
         /\ frame["s2"].calls[k].prim = "userAdd"
         /\ frame["s2"].calls[k].code = userExistExit
    /\ \E k \in 1..Len(frame["s2"].calls) :
         /\ frame["s2"].calls[k].prim = "groupAdd"
         /\ frame["s2"].calls[k].code = groupExistExit
    /\ \E k \in 1..Len(frame["s2"].calls) :
         /\ frame["s2"].calls[k].prim = "LookupGroup"
         /\ frame["s2"].calls[k].err = UnknownGroupError(TeleportServiceGroup)

\* C10: check-then-act race safety. A userDel of deleteUserInGroup never
\* deletes an account that is not a member of TeleportServiceGroup at the
\* moment of the call, whatever the administrator did to the account since
\* the membership check.
C10_RaceSafety ==
    [][deleteUserInGroup_userDel("s1", FALSE) =>
         LET n == frame["s1"].u
         IN  (InPasswd(n) /\ TeleportServiceGroup \notin memberOf[n])
               => n \in Range(passwd')]_vars

\* C11: create-then-delete round trip. From a host where the username does
\* not exist, a createTemporaryUser that returned a closer and nil, followed
\* at once by Close of that closer, where the host answers every call and
\* userDel does not report busy: Close returns nil, GetAllUsers no longer
\* lists the username, and every account that existed before the creation is
\* still in passwd.
C11_RoundTrip ==
    LET f == frame["s1"]
        g == prev["s1"]
    IN  (/\ g.op = "createTemporaryUser" /\ g.done /\ g.closer /\ g.err = Nil
         /\ g.username \notin Range(g.pre.passwd)
         /\ f.op = "Close" /\ f.done /\ f.username = g.username
         /\ f.faults = 0
         /\ \A c \in userDelCalls(f, f.username) :
              f.calls[c].code /= userLoggedInExit)
          => /\ f.err = Nil
             /\ \A out \in GetAllUsers(FALSE) :
                  f.username \notin Range(out.names)
             /\ \A n \in Range(g.pre.passwd) : InPasswd(n)

\* alice was created next to root and an account of the package, and Close
\* deleted her again
C11_Witness ==
    LET f == frame["s1"]
        g == prev["s1"]
    IN  /\ g.op = "createTemporaryUser" /\ g.done /\ g.closer /\ g.err = Nil
        /\ g.username = "alice" /\ g.groups = <<"docker">>
        /\ g.pre.passwd = <<"root", "svc1">>
        /\ f.op = "Close" /\ f.done /\ f.username = "alice" /\ f.faults = 0
        /\ \E c \in userDelCalls(f, "alice") : f.calls[c].code = 0
        /\ f.err = Nil
        /\ passwd = <<"root", "svc1">>

\* the calls of frame f that the host answered with a failure that
\* createTemporaryUser reports: a Lookup that failed otherwise than with
\* "unknown user", a LookupGroup that failed otherwise than with "unknown
\* group", a groupAdd that failed with another exit code than groupExistExit,
\* a userAdd that failed with another exit code than userExistExit
FailedCreations(f) ==
    {k \in 1..Len(f.calls) :
       \/ /\ f.calls[k].prim = "Lookup"
          /\ f.calls[k].err \notin {Nil, UnknownUserError(f.calls[k].arg)}
       \/ /\ f.calls[k].prim = "LookupGroup"
          /\ f.calls[k].err \notin {Nil, UnknownGroupError(f.calls[k].arg)}
       \/ /\ f.calls[k].prim = "groupAdd"
          /\ f.calls[k].code \notin {0, groupExistExit}
       \/ /\ f.calls[k].prim = "userAdd"
          /\ f.calls[k].code \notin {0, userExistExit}}

\* C12: handle issuance. createTemporaryUser returns a closer exactly when
\* it returns nil or AlreadyExists; after a lookup that failed otherwise than
\* with "unknown user", a failed group bootstrap or a userAdd that failed
\* otherwise than with userExistExit, it returns no closer.
C12_HandleIssuance ==
    LET f == frame["s1"]
    IN  (f.op = "createTemporaryUser" /\ f.done)
          => /\ f.closer <=> f.err \in {Nil, AlreadyExists}
             /\ f.closer <=> FailedCreations(f) = {}
             /\ f.closer => f.username \in handles["s1"]

\* the bootstrap of the requested group failed, the one of
\* TeleportServiceGroup did not, and no closer came back
C12_Witness ==
    LET f == frame["s1"]
        g == prev["s1"]
    IN  /\ f.op = "createTemporaryUser" /\ f.done
        /\ f.groups = <<"docker">>
        /\ \E k \in FailedCreations(f) : f.calls[k].prim = "groupAdd"
        /\ ~f.closer /\ f.err \notin {Nil, AlreadyExists}
        /\ f.username \notin handles["s1"]
        /\ g.op = "createTemporaryUser" /\ g.done /\ g.closer
        /\ g.err = AlreadyExists

\* C13: group creation only when the group is missing. createGroupIfNotExist
\* calls groupAdd only after LookupGroup failed with "unknown group": after a
\* lookup that succeeded it calls no groupAdd, and after a lookup that failed
\* otherwise it returns that error and calls no groupAdd.
C13_CreateOnlyWhenUnknown ==
    LET f == frame["s1"]
    IN  f.op = "createGroupIfNotExist" =>
          \A k \in 1..Len(f.calls) :
            /\ f.calls[k].prim = "groupAdd" =>
                 /\ k > 1
                 /\ f.calls[k - 1] =
                      Call("LookupGroup", f.group, 0, UnknownGroupError(f.group))
            /\ (/\ f.calls[k].prim = "LookupGroup"
                /\ f.calls[k].err \notin {Nil, UnknownGroupError(f.group)})
                 => /\ k = Len(f.calls)
                    /\ f.done /\ f.err = f.calls[k].err

\* the calls of groupAdd in frame f that created the group
groupsAdded(f) ==
    {k \in 1..Len(f.calls) : f.calls[k].prim = "groupAdd" /\ f.calls[k].code = 0}

\* C14: concurrent group bootstrap converges. When calls of
\* createGroupIfNotExist for the same group interleave their LookupGroup and
\* groupAdd on a host that answers, each of them returns nil and the group
\* exists afterwards; of two calls that both started while the group was
\* missing, exactly one created it.
C14_ConcurrentBootstrap ==
    \A p, q \in Procs :
      LET f == frame[p]
          g == frame[q]
      IN  /\ (f.op = "createGroupIfNotExist" /\ f.done)
               => f.err = Nil /\ f.group \in groupDB
          /\ (/\ p /= q
              /\ f.op = "createGroupIfNotExist" /\ f.done
              /\ g.op = "createGroupIfNotExist" /\ g.done
              /\ f.group = g.group
              /\ f.group \notin f.pre.groupDB /\ f.group \notin g.pre.groupDB)
               => Cardinality(groupsAdded(f)) + Cardinality(groupsAdded(g)) = 1

\* both calls found the group missing; s1 created it and s2 was told by
\* groupAdd that it exists
C14_Witness ==
    LET f == frame["s1"]
        g == frame["s2"]
    IN  /\ f.op = "createGroupIfNotExist" /\ f.done /\ f.group = "docker"
        /\ g.op = "createGroupIfNotExist" /\ g.done /\ g.group = "docker"
        /\ f.calls = <<Call("LookupGroup", "docker", 0,
                            UnknownGroupError("docker")),
                       Call("groupAdd", "docker", 0, Nil)>>
        /\ g.calls = <<Call("LookupGroup", "docker", 0,
                            UnknownGroupError("docker")),
                       Call("groupAdd", "docker", groupExistExit,
                            ExitError(groupExistExit))>>
        /\ f.err = Nil /\ g.err = Nil
        /\ "docker" \in groupDB

\* the calls of frame f by which the bootstrap of a group failed
FailedBootstraps(f) ==
    {k \in FailedCreations(f) : f.calls[k].prim \in {"LookupGroup", "groupAdd"}}

\* the groups createTemporaryUser looked up in frame f, in order
Bootstrapped(f) ==
    LET IsLookup(c) == c.prim = "LookupGroup"
        lookups == SelectSeq(f.calls, IsLookup)
    IN  [k \in 1..Len(lookups) |-> lookups[k].arg]

\* C15: group bootstrap failure during creation. When the bootstrap of some
\* group fails, createTemporaryUser still runs the bootstrap of every
\* requested group and of TeleportServiceGroup, in that order; it returns no
\* closer and the aggregate of the failures under "error while creating
\* groups", calls no userAdd, and groupsCreated holds exactly the groups
\* whose bootstrap returned nil, in the order of the request.
C15_BootstrapFailure ==
    LET f == frame["s1"]
        gl == Append(f.groups, TeleportServiceGroup)
        Failed(c) == \E k \in FailedBootstraps(f) : f.calls[k] = c
        failures == SelectSeq(f.calls, Failed)
        Succeeded(g) == \A k \in FailedBootstraps(f) : f.calls[k].arg /= g
    IN  (f.op = "createTemporaryUser" /\ FailedBootstraps(f) /= {})
          => /\ \A k \in 1..Len(f.calls) : f.calls[k].prim /= "userAdd"
             /\ Bootstrapped(f) = SubSeq(gl, 1, Len(Bootstrapped(f)))
             /\ f.done =>
                  /\ Bootstrapped(f) = gl
                  /\ ~f.closer
                  /\ f.err = WrapWithMessage(
                               Error("Aggregate", "",
                                     [k \in 1..Len(failures) |-> failures[k].err]),
                               "error while creating groups")
                  /\ f.groupsCreated = SelectSeq(gl, Succeeded)

\* groupAdd of the requested group failed; TeleportServiceGroup was still
\* created and is the one group reported
C15_Witness ==
    LET f == frame["s1"]
    IN  /\ f.op = "createTemporaryUser" /\ f.done
        /\ f.groups = <<"docker">>
        /\ f.pre.groupDB = {}
        /\ \E k \in FailedBootstraps(f) :
             f.calls[k] = Call("groupAdd", "docker", -1, ExitError(-1))
        /\ Cardinality(FailedBootstraps(f)) = 1
        /\ f.groupsCreated = <<TeleportServiceGroup>>
        /\ groupDB = {TeleportServiceGroup}
        /\ ~f.closer
        /\ ~InPasswd(f.username)

\* C16: status table of userAdd. After every bootstrap succeeded, a userAdd
\* that exits with userExistExit counts as success: createTemporaryUser
\* returns a closer and nil although userAdd gave an error. A userAdd that
\* fails with any other code makes it return no closer and that error under
\* "error while creating user", with the groups it bootstrapped.
C16_UserAddStatus ==
    \A p \in Procs :
      LET f == frame[p]
          gl == Append(f.groups, TeleportServiceGroup)
      IN  \A k \in 1..Len(f.calls) :
            f.calls[k].prim = "userAdd" =>
              /\ FailedBootstraps(f) = {}
              /\ f.done /\ k = Len(f.calls)
              /\ f.groupsCreated = gl
              /\ f.calls[k].code = userExistExit =>
                   /\ f.calls[k].err /= Nil
                   /\ f.closer /\ f.err = Nil
                   /\ f.username \in handles[p]
              /\ f.calls[k].code \notin {0, userExistExit} =>
                   /\ ~f.closer
                   /\ f.err = WrapWithMessage(f.calls[k].err,
                                              "error while creating user")

\* s1 and s2 both found svc1 missing; s1 created it, userAdd told s2 that
\* the account exists, and s2 still got a closer and nil
C16_Witness ==
    LET f == frame["s1"]
        g == frame["s2"]
    IN  /\ Created("s1", "svc1", <<"docker">>)
        /\ Created("s2", "svc1", <<"docker">>)
        /\ f.calls[Len(f.calls)] = Call("userAdd", "svc1", 0, Nil)
        /\ g.calls[Len(g.calls)] =
             Call("userAdd", "svc1", userExistExit, ExitError(userExistExit))
        /\ g.groupsCreated = <<"docker", TeleportServiceGroup>>
        /\ g.closer /\ g.err = Nil
        /\ "svc1" \in handles["s2"]
        /\ InPasswd("svc1")

\* the calls of frame f by which the host failed to resolve an account
FailedResolutions(f) ==
    {k \in 1..Len(f.calls) :
       f.calls[k].prim \in {"Lookup", "GroupIds"} /\ f.calls[k].err /= Nil}

\* C17: resolution failure and double Close. When Lookup or GroupIds fails
\* in deleteUserInGroup, it returns that error and calls no userDel. So a
\* second Close of a closer whose first Close deleted the account returns
\* "unknown user" when the host answers, calls none of groupAdd, userAdd and
\* userDel and leaves the host as it was.
C17_ResolutionFailure ==
    LET f == frame["s1"]
        g == prev["s1"]
    IN  f.op = "Close" =>
          /\ \A k \in FailedResolutions(f) :
               /\ f.calls[k].arg = f.username
               /\ k = Len(f.calls)
               /\ f.done /\ f.err = f.calls[k].err
               /\ f.dugLog = <<[user |-> f.username, err |-> f.err,
                                faulted |-> f.faults > 0]>>
               /\ userDelCalls(f, f.username) = {}
               /\ Snapshot = f.pre
          /\ (/\ g.op = "Close" /\ g.username = f.username
              /\ \E c \in userDelCalls(g, g.username) : g.calls[c].code = 0
              /\ f.done /\ f.faults = 0)
               => /\ f.err = UnknownUserError(f.username)
                  /\ Mutations(f) = {}
                  /\ Snapshot = f.pre

\* svc1 was created, the first Close deleted it, the second Close returned
\* "unknown user"
C17_Witness ==
    LET f == frame["s1"]
        g == prev["s1"]
    IN  /\ f.op = "Close" /\ f.done /\ f.faults = 0 /\ f.username = "svc1"
        /\ g.op = "Close" /\ g.done /\ g.username = "svc1" /\ g.err = Nil
        /\ "svc1" \in Range(g.pre.passwd)
        /\ \E c \in userDelCalls(g, "svc1") : g.calls[c].code = 0
        /\ f.calls = <<Call("LookupGroup", TeleportServiceGroup, 0, Nil),
                       Call("Lookup", "svc1", 0, UnknownUserError("svc1"))>>
        /\ f.err = UnknownUserError("svc1")
        /\ ~InPasswd("svc1")
        /\ nops = MaxOps

\* p closed the closer of its session for the account u
Closed(p, u) ==
    frame[p].op = "Close" /\ frame[p].done /\ frame[p].username = u

\* some session for u was closed, and no caller is in a call for u or has a
\* session for u that runs
AllClosed(u) ==
    /\ \E p \in Procs : Closed(p, u)
    /\ \A p \in Procs :
         (frame[p].op /= "none" /\ frame[p].username = u) => Closed(p, u)

\* C18: cleanup over several sessions. Several callers hold closers for the
\* same account of the package, and userDel reports busy exactly while the
\* session of another caller runs for the account. A Close that userDel
\* answers with busy returns nil; the account stays in passwd while a session
\* runs for it; once every closer is closed the account is gone.
C18_SessionCleanup ==
    \A p \in Procs, u \in RequestedNames :
      LET f == frame[p]
      IN  /\ (/\ Closed(p, u)
              /\ \E c \in userDelCalls(f, u) :
                   f.calls[c].code = userLoggedInExit)
               => f.err = Nil
          /\ Open(p, u) => InPasswd(u)
          /\ AllClosed(u)
               => ~(InPasswd(u) /\ TeleportServiceGroup \in memberOf[u])

\* s1 created svc1 and s2 found it; the Close of s1 came while the session
\* of s2 ran and was told busy, the Close of s2 deleted the account
C18_Witness ==
    LET f == frame["s1"]
        g == frame["s2"]
    IN  /\ Closed("s1", "svc1") /\ Closed("s2", "svc1")
        /\ prev["s1"].op = "createTemporaryUser" /\ prev["s1"].err = Nil
        /\ prev["s2"].op = "createTemporaryUser"
        /\ prev["s2"].err = AlreadyExists
        /\ \E c \in userDelCalls(f, "svc1") :
             f.calls[c].code = userLoggedInExit
        /\ "svc1" \in Range(g.pre.passwd)
        /\ \E c \in userDelCalls(g, "svc1") : g.calls[c].code = 0
        /\ f.err = Nil /\ g.err = Nil
        /\ AllClosed("svc1")
        /\ ~InPasswd("svc1")

\* C19: an account that exists leaves the host unchanged. When
\* createTemporaryUser finds that the username exists, it calls neither
\* groupAdd nor userAdd, the groups, accounts and memberships of the host stay
\* as they were (the account does not become a member of
\* TeleportServiceGroup), and groupsCreated is empty.
C19_ExistingUnchanged ==
    LET f == frame["s1"]
    IN  (f.op = "createTemporaryUser" /\ f.username \in Range(f.pre.passwd))
          => /\ Mutations(f) = {}
             /\ Snapshot = f.pre
             /\ memberOf[f.username] = f.pre.memberOf[f.username]
             /\ f.groupsCreated = <<>>

\* createTemporaryUser with a group was called for an account of the host's
\* own, on a host that has neither that group nor TeleportServiceGroup
C19_Witness ==
    LET f == frame["s1"]
    IN  /\ f.op = "createTemporaryUser" /\ f.done
        /\ f.username = "alice" /\ f.groups = <<"docker">>
        /\ f.pre.memberOf["alice"] = {"staff"}
        /\ f.pre.groupDB = {"staff"}
        /\ f.calls = <<Call("Lookup", "alice", 0, Nil)>>
        /\ f.err = AlreadyExists
        /\ groupDB = {"staff"}
        /\ memberOf["alice"] = {"staff"}

\* C20: postcondition of the sweep. After DeleteAllTeleportSystemUsers went
\* through its loop and returned, with no other caller at work: every
\* enumerated account that was not a member of TeleportServiceGroup is still
\* in passwd with the memberships it had; every member whose userDel
\* succeeded is gone; the members still in passwd are those whose userDel
\* reported busy or failed; no group is gone.
C20_SweepPostcondition ==
    LET f == frame["s1"]
    IN  (Sweeping(f) /\ f.done) =>
          /\ \A n \in Range(f.pre.passwd) :
               /\ Unmanaged(f, n) =>
                    InPasswd(n) /\ memberOf[n] = f.pre.memberOf[n]
               /\ (/\ Managed(f, n)
                   /\ \E c \in userDelCalls(f, n) : f.calls[c].code = 0)
                    => ~InPasswd(n)
               /\ (Managed(f, n) /\ InPasswd(n))
                    => \E c \in userDelCalls(f, n) : f.calls[c].code /= 0
          /\ f.pre.groupDB \subseteq groupDB

\* C20, amended: as C20, but the members still in passwd are those whose
\* userDel reported busy or failed and those the host failed to resolve
\* (Lookup or GroupIds failed), for which userDel was not called.
C20_SweepPostcondition_amended ==
    LET f == frame["s1"]
    IN  (Sweeping(f) /\ f.done) =>
          /\ \A n \in Range(f.pre.passwd) :
               /\ Unmanaged(f, n) =>
                    InPasswd(n) /\ memberOf[n] = f.pre.memberOf[n]
               /\ (/\ Managed(f, n)
                   /\ \E c \in userDelCalls(f, n) : f.calls[c].code = 0)
                    => ~InPasswd(n)
               /\ (Managed(f, n) /\ InPasswd(n))
                    => \/ \E c \in userDelCalls(f, n) : f.calls[c].code /= 0
                       \/ /\ \E k \in FailedResolutions(f) : f.calls[k].arg = n
                          /\ userDelCalls(f, n) = {}
          /\ f.pre.groupDB \subseteq groupDB

\* a sweep over an account of the host's own and two of the package: the
\* host failed to list the groups of svc1, which stays; svc2 was deleted
C20_Witness ==
    LET f == frame["s1"]
    IN  /\ Sweeping(f) /\ f.done
        /\ f.pre.passwd = <<"root", "alice", "svc1", "svc2">>
        /\ Unmanaged(f, "alice") /\ Managed(f, "svc1") /\ Managed(f, "svc2")
        /\ \E k \in FailedResolutions(f) :
             f.calls[k] = Call("GroupIds", "svc1", 0, LookupFault)
        /\ userDelCalls(f, "svc1") = {}
        /\ \E c \in userDelCalls(f, "svc2") : f.calls[c].code = 0
        /\ passwd = <<"root", "alice", "svc1">>
        /\ memberOf["alice"] = {"staff"}
        /\ groupDB = f.pre.groupDB

====
